---- MODULE Spec2Model ----
(***************************************************************************)
(* Advert lifecycle and command queue of the IT-magazine system            *)
(* (src/it_magazine.py).  Adverts are objects shared by reference: the     *)
(* heap holds the objects, the stores hold references (heap indices).      *)
(***************************************************************************)
EXTENDS Integers, Sequences, FiniteSets, TLC

\* ---------------------------------------------------------------- bounds
MaxObjects == 1      \* Advert objects built with the constructor directly
MaxStored  == 2      \* length of ProcessingCentreStaff.stored_adverts
MaxQueue   == 2      \* length of CommandInvoker.command_queue
MaxStaff   == 2      \* live ITMagazineStaff objects

\* ---------------------------------------------------------------- values
\* Python's None, kept apart from the empty string: both are falsy.
None == "None"

Truthy(x) == x # None /\ x # ""

ValidSizes == {"Full Page", "Half Page", "Quarter Page"}

Statuses == {"Pending", "Approved", "Cancelled", "Published"}

\* The value a call hands back: an Advert reference, a message, None, or the
\* ValueError it raised.  One record shape for all of them.
RetNone == [kind |-> "None", ref |-> 0, text |-> "", advert_id |-> "", issue_date |-> ""]

RetAdvert(r) == [kind |-> "Advert", ref |-> r, text |-> "", advert_id |-> "", issue_date |-> ""]

RetStr(t, id, d) == [kind |-> "str", ref |-> 0, text |-> t, advert_id |-> id, issue_date |-> d]

ValueError(t) == [kind |-> "ValueError", ref |-> 0, text |-> t, advert_id |-> "", issue_date |-> ""]

\* Outcome of one call on the stores st: whether it raised, what it returned
\* or raised, and the stores afterwards.
Return(st, v) == [raised |-> FALSE, ret |-> v, st |-> st]

Raise(st, t) == [raised |-> TRUE, ret |-> ValueError(t), st |-> st]

\* ---------------------------------------------------------------- Advert
Advert(advert_id, client_name, size, placement, publication_date, status) ==
    [advert_id |-> advert_id, client_name |-> client_name, size |-> size,
     placement |-> placement, publication_date |-> publication_date,
     status |-> status]

\* Mutant of update_details: `is not None` in place of truthiness.
update_details_not_none(a, size, placement, publication_date) ==
    [a EXCEPT !.size = IF size # None THEN size ELSE @,
              !.placement = IF placement # None THEN placement ELSE @,
              !.publication_date =
                  IF publication_date # None THEN publication_date ELSE @]

update_details(a, size, placement, publication_date) ==
    [a EXCEPT !.size = IF Truthy(size) THEN size ELSE @,
              !.placement = IF Truthy(placement) THEN placement ELSE @,
              !.publication_date =
                  IF Truthy(publication_date) THEN publication_date ELSE @]

advert_cancel(a) == [a EXCEPT !.status = "Cancelled"]

\* ---------------------------------------------------------------- dates
\* datetime.strptime(s, "%Y-%m-%d"): the fields the format extracts from the
\* strings the model uses (<<>> when the string does not match the format).
DateFields(s) ==
    CASE s = "2025-01-15" -> <<2025, 1, 15>>
      [] s = "2025-02-01" -> <<2025, 2, 1>>
      [] s = "2025-03-10" -> <<2025, 3, 10>>
      [] s = "2025-02-30" -> <<2025, 2, 30>>
      [] OTHER -> <<>>

IsLeap(y) == (y % 4 = 0 /\ y % 100 # 0) \/ y % 400 = 0

DaysInMonth(y, m) ==
    IF m = 2 THEN (IF IsLeap(y) THEN 29 ELSE 28)
    ELSE IF m \in {4, 6, 9, 11} THEN 30 ELSE 31

is_valid_date(date_string) ==
    LET f == DateFields(date_string) IN
    /\ Len(f) = 3
    /\ f[1] \in 1..9999
    /\ f[2] \in 1..12
    /\ f[3] \in 1..DaysInMonth(f[1], f[2])

\* ---------------------------------------------------------------- stores
\* st.heap            the Advert objects, by reference 1..Len
\* st.adverts         MarketingDeptStaff.adverts: advert_id -> reference
\* st.magazine_issues Editor.magazine_issues: issue_date -> <<reference>>
\* st.stored_adverts  ProcessingCentreStaff.stored_adverts: <<reference>>
Put(d, k, v) == [x \in DOMAIN d \cup {k} |-> IF x = k THEN v ELSE d[x]]

EmptyDict == [x \in {} |-> 0]

\* Mutant of create_advert: no check that the id is free.
create_advert_overwrite(st, advert_id, client_name, size, placement, publication_date) ==
    IF ~Truthy(advert_id) THEN Raise(st, "Advert ID cannot be empty.")
    ELSE IF ~Truthy(client_name) THEN Raise(st, "Client name cannot be empty.")
    ELSE IF size \notin ValidSizes THEN Raise(st, "Invalid size")
    ELSE IF ~Truthy(placement) THEN Raise(st, "Placement cannot be empty.")
    ELSE IF ~is_valid_date(publication_date)
        THEN Raise(st, "Invalid publication date")
    ELSE LET ref == Len(st.heap) + 1
             advert == Advert(advert_id, client_name, size, placement,
                              publication_date, "Pending")
         IN Return([st EXCEPT !.heap = Append(@, advert),
                              !.adverts = Put(@, advert_id, ref)],
                   RetAdvert(ref))

\* Mutant of create_advert: the new advert is born Approved.
create_advert_approved(st, advert_id, client_name, size, placement, publication_date) ==
    IF ~Truthy(advert_id) THEN Raise(st, "Advert ID cannot be empty.")
    ELSE IF ~Truthy(client_name) THEN Raise(st, "Client name cannot be empty.")
    ELSE IF size \notin ValidSizes THEN Raise(st, "Invalid size")
    ELSE IF ~Truthy(placement) THEN Raise(st, "Placement cannot be empty.")
    ELSE IF ~is_valid_date(publication_date)
        THEN Raise(st, "Invalid publication date")
    ELSE IF advert_id \in DOMAIN st.adverts
        THEN Raise(st, "Advert ID already exists.")
    ELSE LET ref == Len(st.heap) + 1
             advert == Advert(advert_id, client_name, size, placement,
                              publication_date, "Approved")
         IN Return([st EXCEPT !.heap = Append(@, advert),
                              !.adverts = Put(@, advert_id, ref)],
                   RetAdvert(ref))

create_advert(st, advert_id, client_name, size, placement, publication_date) ==
    IF ~Truthy(advert_id) THEN Raise(st, "Advert ID cannot be empty.")
    ELSE IF ~Truthy(client_name) THEN Raise(st, "Client name cannot be empty.")
    ELSE IF size \notin ValidSizes THEN Raise(st, "Invalid size")
    ELSE IF ~Truthy(placement) THEN Raise(st, "Placement cannot be empty.")
    ELSE IF ~is_valid_date(publication_date)
        THEN Raise(st, "Invalid publication date")
    ELSE IF advert_id \in DOMAIN st.adverts
        THEN Raise(st, "Advert ID already exists.")
    ELSE LET ref == Len(st.heap) + 1
             advert == Advert(advert_id, client_name, size, placement,
                              publication_date, "Pending")
         IN Return([st EXCEPT !.heap = Append(@, advert),
                              !.adverts = Put(@, advert_id, ref)],
                   RetAdvert(ref))

update_advert(st, advert_id, size, placement, publication_date) ==
    IF advert_id \notin DOMAIN st.adverts
        THEN Raise(st, "Advert ID does not exist.")
    ELSE LET ref == st.adverts[advert_id] IN
         Return([st EXCEPT !.heap[ref] =
                     update_details(@, size, placement, publication_date)],
                RetStr("updated successfully.", advert_id, ""))

\* Mutant of cancel_advert: an advert already cancelled is refused.
cancel_advert_once(st, advert_id) ==
    IF advert_id \notin DOMAIN st.adverts
        THEN Raise(st, "Advert ID does not exist.")
    ELSE IF st.heap[st.adverts[advert_id]].status = "Cancelled"
        THEN Raise(st, "Advert already cancelled.")
    ELSE LET ref == st.adverts[advert_id] IN
         Return([st EXCEPT !.heap[ref] = advert_cancel(@)],
                RetStr("cancelled successfully.", advert_id, ""))

cancel_advert(st, advert_id) ==
    IF advert_id \notin DOMAIN st.adverts
        THEN Raise(st, "Advert ID does not exist.")
    ELSE LET ref == st.adverts[advert_id] IN
         Return([st EXCEPT !.heap[ref] = advert_cancel(@)],
                RetStr("cancelled successfully.", advert_id, ""))

\* next((ad for ad in issue if ad.advert_id == advert_id), None): the first
\* entry of the issue with that advert_id, 0 for None.
ExistingAdvert(heap, issue, advert_id) ==
    LET hits == {i \in 1..Len(issue) : heap[issue[i]].advert_id = advert_id}
    IN IF hits = {} THEN 0
       ELSE issue[CHOOSE i \in hits : \A j \in hits : i <= j]

\* Mutant of place_or_update: the append path forgets to approve.
place_or_update_no_approve(st, advert, issue_date) ==
    LET issues == IF issue_date \notin DOMAIN st.magazine_issues
                     THEN Put(st.magazine_issues, issue_date, <<>>)
                     ELSE st.magazine_issues
        a == st.heap[advert]
        existing_advert == ExistingAdvert(st.heap, issues[issue_date],
                                          a.advert_id)
    IN IF existing_advert # 0
       THEN Return([st EXCEPT !.magazine_issues = issues,
                              !.heap[existing_advert] =
                                  update_details(@, a.size, a.placement,
                                                 a.publication_date)],
                   RetNone)
       ELSE Return([st EXCEPT !.magazine_issues =
                                  Put(issues, issue_date,
                                      Append(issues[issue_date], advert))],
                   RetNone)

\* Mutant of place_or_update: the advert is appended without looking for an
\* entry with its advert_id.
place_or_update_always_append(st, advert, issue_date) ==
    LET issues == IF issue_date \notin DOMAIN st.magazine_issues
                     THEN Put(st.magazine_issues, issue_date, <<>>)
                     ELSE st.magazine_issues
    IN Return([st EXCEPT !.magazine_issues =
                             Put(issues, issue_date,
                                 Append(issues[issue_date], advert)),
                         !.heap[advert].status = "Approved"],
              RetNone)

\* Mutant of place_or_update: the merge path approves the existing entry.
place_or_update_approve_merge(st, advert, issue_date) ==
    LET issues == IF issue_date \notin DOMAIN st.magazine_issues
                     THEN Put(st.magazine_issues, issue_date, <<>>)
                     ELSE st.magazine_issues
        a == st.heap[advert]
        existing_advert == ExistingAdvert(st.heap, issues[issue_date],
                                          a.advert_id)
    IN IF existing_advert # 0
       THEN Return([st EXCEPT !.magazine_issues = issues,
                              !.heap[existing_advert] =
                                  [update_details(@, a.size, a.placement,
                                                  a.publication_date)
                                       EXCEPT !.status = "Approved"]],
                   RetNone)
       ELSE Return([st EXCEPT !.magazine_issues =
                                  Put(issues, issue_date,
                                      Append(issues[issue_date], advert)),
                              !.heap[advert].status = "Approved"],
                   RetNone)

\* Mutant of place_or_update: the issue receives a copy of the advert, a new
\* object, instead of the advert passed.
place_or_update_copy(st, advert, issue_date) ==
    LET issues == IF issue_date \notin DOMAIN st.magazine_issues
                     THEN Put(st.magazine_issues, issue_date, <<>>)
                     ELSE st.magazine_issues
        a == st.heap[advert]
        existing_advert == ExistingAdvert(st.heap, issues[issue_date],
                                          a.advert_id)
    IN IF existing_advert # 0
       THEN Return([st EXCEPT !.magazine_issues = issues,
                              !.heap[existing_advert] =
                                  update_details(@, a.size, a.placement,
                                                 a.publication_date)],
                   RetNone)
       ELSE Return([st EXCEPT !.magazine_issues =
                                  Put(issues, issue_date,
                                      Append(issues[issue_date],
                                             Len(st.heap) + 1)),
                              !.heap = Append([@ EXCEPT ![advert].status =
                                                            "Approved"],
                                              [a EXCEPT !.status = "Approved"])],
                   RetNone)

\* update_advert_in_issue after its status guard: make the issue if the date
\* is new, then update the entry with this advert_id or append the advert
\* and approve it.
place_or_update(st, advert, issue_date) ==
    LET issues == IF issue_date \notin DOMAIN st.magazine_issues
                     THEN Put(st.magazine_issues, issue_date, <<>>)
                     ELSE st.magazine_issues
        a == st.heap[advert]
        existing_advert == ExistingAdvert(st.heap, issues[issue_date],
                                          a.advert_id)
    IN IF existing_advert # 0
       THEN Return([st EXCEPT !.magazine_issues = issues,
                              !.heap[existing_advert] =
                                  update_details(@, a.size, a.placement,
                                                 a.publication_date)],
                   RetNone)
       ELSE Return([st EXCEPT !.magazine_issues =
                                  Put(issues, issue_date,
                                      Append(issues[issue_date], advert)),
                              !.heap[advert].status = "Approved"],
                   RetNone)

\* Mutant of update_advert_in_issue: the issue is made before the status is
\* looked at.
update_advert_in_issue_late_guard(st, advert, issue_date) ==
    LET made == [st EXCEPT !.magazine_issues =
                     IF issue_date \notin DOMAIN @
                         THEN Put(@, issue_date, <<>>) ELSE @]
    IN IF st.heap[advert].status = "Cancelled"
       THEN Raise(made, "Cannot add or update a cancelled advert in the magazine.")
       ELSE place_or_update(st, advert, issue_date)

\* Mutant of update_advert_in_issue: no status guard.
update_advert_in_issue_no_guard(st, advert, issue_date) ==
    place_or_update(st, advert, issue_date)

update_advert_in_issue(st, advert, issue_date) ==
    IF st.heap[advert].status = "Cancelled"
        THEN Raise(st, "Cannot add or update a cancelled advert in the magazine.")
    ELSE place_or_update(st, advert, issue_date)

\* Mutant of remove_advert_from_issue: the adverts taken out of the issue go
\* back to Pending.
remove_advert_from_issue_unapprove(st, advert_id, issue_date) ==
    IF issue_date \notin DOMAIN st.magazine_issues
        THEN Raise(st, "Issue date does not exist.")
    ELSE LET Keep(ad) == st.heap[ad].advert_id # advert_id
             issue == st.magazine_issues[issue_date]
             gone == {issue[i] : i \in 1..Len(issue)}
                         \ {ad \in 1..Len(st.heap) : Keep(ad)}
         IN
         Return([st EXCEPT !.magazine_issues[issue_date] = SelectSeq(@, Keep),
                           !.heap = [r \in DOMAIN @ |->
                                        IF r \in gone
                                        THEN [@[r] EXCEPT !.status = "Pending"]
                                        ELSE @[r]]],
                RetNone)

remove_advert_from_issue(st, advert_id, issue_date) ==
    IF issue_date \notin DOMAIN st.magazine_issues
        THEN Raise(st, "Issue date does not exist.")
    ELSE LET Keep(ad) == st.heap[ad].advert_id # advert_id IN
         Return([st EXCEPT !.magazine_issues[issue_date] = SelectSeq(@, Keep)],
                RetNone)

\* Mutant of store_advert: the guard of the editor, copied.
store_advert_not_cancelled(st, advert) ==
    IF st.heap[advert].status = "Cancelled"
        THEN Raise(st, "Only approved adverts can be stored.")
    ELSE Return([st EXCEPT !.stored_adverts = Append(@, advert)], RetNone)

store_advert(st, advert) ==
    IF st.heap[advert].status # "Approved"
        THEN Raise(st, "Only approved adverts can be stored.")
    ELSE Return([st EXCEPT !.stored_adverts = Append(@, advert)], RetNone)

\* ---------------------------------------------------------------- commands
\* A command object: its class and the fields its constructor binds.  `advert`
\* is a reference to the Advert object, not a copy of it.
Command(type, advert_id, client_name, size, placement, publication_date, advert, issue_date) ==
    [type |-> type, advert_id |-> advert_id, client_name |-> client_name,
     size |-> size, placement |-> placement,
     publication_date |-> publication_date, advert |-> advert,
     issue_date |-> issue_date]

CreateAdvertCommand(d) ==
    Command("CreateAdvertCommand", d.advert_id, d.client_name, d.size,
            d.placement, d.publication_date, 0, "")

UpdateAdvertCommand(advert_id, size, placement, publication_date) ==
    Command("UpdateAdvertCommand", advert_id, "", size, placement,
            publication_date, 0, "")

CancelAdvertCommand(advert_id) ==
    Command("CancelAdvertCommand", advert_id, "", None, None, None, 0, "")

UpdateAdvertInIssueCommand(advert, issue_date) ==
    Command("UpdateAdvertInIssueCommand", "", "", None, None, None, advert,
            issue_date)

RemoveAdvertFromIssueCommand(advert_id, issue_date) ==
    Command("RemoveAdvertFromIssueCommand", advert_id, "", None, None, None, 0,
            issue_date)

StoreAdvertCommand(advert) ==
    Command("StoreAdvertCommand", "", "", None, None, None, advert, "")

NoCommand == Command("", "", "", None, None, None, 0, "")

\* The receiver's method a command is bound to.
Receiver(c, st) ==
    CASE c.type = "CreateAdvertCommand" ->
            create_advert(st, c.advert_id, c.client_name, c.size, c.placement,
                          c.publication_date)
      [] c.type = "UpdateAdvertCommand" ->
            update_advert(st, c.advert_id, c.size, c.placement,
                          c.publication_date)
      [] c.type = "CancelAdvertCommand" -> cancel_advert(st, c.advert_id)
      [] c.type = "UpdateAdvertInIssueCommand" ->
            update_advert_in_issue(st, c.advert, c.issue_date)
      [] c.type = "RemoveAdvertFromIssueCommand" ->
            remove_advert_from_issue(st, c.advert_id, c.issue_date)
      [] c.type = "StoreAdvertCommand" -> store_advert(st, c.advert)

\* Command.execute(): the marketing commands hand back what the method
\* returns; the editor and processing commands return a message of their own.
execute(c, st) ==
    LET r == Receiver(c, st) IN
    IF r.raised THEN r
    ELSE CASE c.type \in {"CreateAdvertCommand", "UpdateAdvertCommand",
                          "CancelAdvertCommand"} -> r
           [] c.type = "UpdateAdvertInIssueCommand" ->
                Return(r.st, RetStr("updated or added to issue",
                                    r.st.heap[c.advert].advert_id, c.issue_date))
           [] c.type = "RemoveAdvertFromIssueCommand" ->
                Return(r.st, RetStr("removed from issue", c.advert_id,
                                    c.issue_date))
           [] c.type = "StoreAdvertCommand" ->
                Return(r.st, RetStr("stored successfully.",
                                    r.st.heap[c.advert].advert_id, ""))

\* ---------------------------------------------------------------- staff
MinSalary == 10000

MaxSalary == 1000000

StaffIdLength == 6

valid_departments == {"Marketing", "Editing", "Processing Centre"}

\* A staff_id argument: an int, or a value of another type (isint FALSE).
IntId(n) == [isint |-> TRUE, n |-> n]

\* len(str(n)) of an int: the digits, and the sign of a negative number.
RECURSIVE Digits(_)
Digits(n) == IF n < 10 THEN 1 ELSE 1 + Digits(n \div 10)

StrLen(n) == IF n < 0 THEN 1 + Digits(0 - n) ELSE Digits(n)

\* The object under construction: staff_id is an attribute only once
\* __init__ has assigned it.
NewStaff == [cls |-> "", has_staff_id |-> FALSE, staff_id |-> 0,
             salary |-> 0, dept |-> ""]

StaffResult(raised, error, self, used) ==
    [raised |-> raised, error |-> error, self |-> self, used |-> used]

\* Mutant of staff_init: self.staff_id is assigned before the uniqueness
\* check, so the rejected object carries the id of the original holder.
staff_init_assign_first(used, cls, staff_id, salary, dept) ==
    LET self == [NewStaff EXCEPT !.cls = cls]
    IN IF ~staff_id.isint \/ StrLen(staff_id.n) # StaffIdLength
       THEN StaffResult(TRUE, "Staff ID must be a 6-digit integer.", self, used)
       ELSE IF ~(MinSalary <= salary /\ salary <= MaxSalary)
       THEN StaffResult(TRUE, "Salary must be between 10,000 and 1,000,000.",
                        self, used)
       ELSE IF dept \notin valid_departments
       THEN StaffResult(TRUE, "Department must be one of", self, used)
       ELSE LET set == [self EXCEPT !.has_staff_id = TRUE,
                                    !.staff_id = staff_id.n,
                                    !.salary = salary, !.dept = dept]
            IN IF staff_id.n \in used
               THEN StaffResult(TRUE, "Staff ID is already in use.", set, used)
               ELSE StaffResult(FALSE, "", set, used \cup {staff_id.n})

\* ITMagazineStaff.__init__, reached through super().__init__ by the three
\* subclasses: the four checks in order, then the attributes, then the
\* registration.
staff_init(used, cls, staff_id, salary, dept) ==
    LET self == [NewStaff EXCEPT !.cls = cls]
    IN IF ~staff_id.isint \/ StrLen(staff_id.n) # StaffIdLength
       THEN StaffResult(TRUE, "Staff ID must be a 6-digit integer.", self, used)
       ELSE IF ~(MinSalary <= salary /\ salary <= MaxSalary)
       THEN StaffResult(TRUE, "Salary must be between 10,000 and 1,000,000.",
                        self, used)
       ELSE IF dept \notin valid_departments
       THEN StaffResult(TRUE, "Department must be one of", self, used)
       ELSE IF staff_id.n \in used
       THEN StaffResult(TRUE, "Staff ID is already in use.", self, used)
       ELSE StaffResult(FALSE, "",
                        [self EXCEPT !.has_staff_id = TRUE,
                                     !.staff_id = staff_id.n,
                                     !.salary = salary, !.dept = dept],
                        used \cup {staff_id.n})

\* remove_staff_id: set.discard, no error for an id that is not there.
remove_staff_id(used, staff_id) == used \ {staff_id}

\* Mutant of staff_del: the id stays registered.
staff_del_keep(used, self) == used

\* __del__: reading self.staff_id of an object whose construction failed
\* raises AttributeError, which is swallowed.
staff_del(used, self) ==
    IF self.has_staff_id THEN remove_staff_id(used, self.staff_id) ELSE used

\* The objects the issues hold.
IssueEntries(issues) ==
    UNION {{issues[d][i] : i \in 1..Len(issues[d])} : d \in DOMAIN issues}

\* ---------------------------------------------------------------- state
VARIABLES
    heap,             \* the Advert objects
    adverts,          \* MarketingDeptStaff.adverts
    magazine_issues,  \* Editor.magazine_issues
    stored_adverts,   \* ProcessingCentreStaff.stored_adverts
    command_queue,    \* CommandInvoker.command_queue
    pc,               \* "idle", "loop" (inside execute_commands), "returned",
                      \* "raised" (the caller holds the outcome)
    results,          \* the local `results` of execute_commands
    call,             \* the call in progress or just finished
    outcome,          \* what the caller of `call` obtained
    batch,            \* the queue when the invoker method in `call` was
                      \* called
    pre,              \* the stores when execute_commands was called
    staff,            \* the live ITMagazineStaff objects
    used_staff_ids,   \* ITMagazineStaff._used_staff_ids
    staff_call,       \* the arguments of the staff construction or
                      \* destruction in `call`
    placed            \* history: the adverts an issue has ever held

vars == <<heap, adverts, magazine_issues, stored_adverts, command_queue, pc,
          results, call, outcome, batch, pre, staff, used_staff_ids,
          staff_call, placed>>

staff_vars == <<staff, used_staff_ids, staff_call>>

St == [heap |-> heap, adverts |-> adverts,
       magazine_issues |-> magazine_issues, stored_adverts |-> stored_adverts]

SetSt(st) ==
    /\ heap' = st.heap
    /\ adverts' = st.adverts
    /\ magazine_issues' = st.magazine_issues
    /\ stored_adverts' = st.stored_adverts
    /\ placed' = placed \cup IssueEntries(st.magazine_issues)

EmptySt == [heap |-> <<>>, adverts |-> EmptyDict,
            magazine_issues |-> EmptyDict, stored_adverts |-> <<>>]

NoCall == [op |-> "", arg |-> NoCommand, status |-> ""]

NoOutcome == [kind |-> "none", ret |-> RetNone, list |-> <<>>]

Returned(v) == [kind |-> "return", ret |-> v, list |-> <<>>]

ReturnedList(l) ==
    [kind |-> "return",
     ret |-> [kind |-> "list", ref |-> 0, text |-> "", advert_id |-> "",
              issue_date |-> ""],
     list |-> l]

\* An exception reaches the caller alone: no return value comes with it.
Raised(e) == [kind |-> "raise", ret |-> e, list |-> <<>>]

NoStaffCall == [cls |-> "", staff_id |-> IntId(0), salary |-> 0, dept |-> ""]

Staff(cls, staff_id, salary, dept) ==
    [cls |-> cls, has_staff_id |-> TRUE, staff_id |-> staff_id,
     salary |-> salary, dept |-> dept]

\* The three receivers __main__ constructs before any command.
MainStaff ==
    << Staff("MarketingDeptStaff", 100000, 50000, "Marketing"),
       Staff("Editor", 200000, 20000, "Editing"),
       Staff("ProcessingCentreStaff", 300000, 20000, "Processing Centre") >>

InitStores ==
    /\ heap = <<>>
    /\ adverts = EmptyDict
    /\ magazine_issues = EmptyDict
    /\ stored_adverts = <<>>
    /\ command_queue = <<>>
    /\ pc = "idle"
    /\ results = <<>>
    /\ call = NoCall
    /\ outcome = NoOutcome
    /\ batch = <<>>
    /\ pre = EmptySt
    /\ staff_call = NoStaffCall
    /\ placed = {}

Init ==
    /\ InitStores
    /\ staff = MainStaff
    /\ used_staff_ids = {100000, 200000, 300000}

\* The module just loaded: the registry is empty and no staff exists.
InitStaff ==
    /\ InitStores
    /\ staff = <<>>
    /\ used_staff_ids = {}

\* ---------------------------------------------------------------- inputs
\* create_advert arguments: rows of src/testing.py's test_data_for_advert
\* (the valid AD001 row and two invalid rows), an empty placement and an
\* impossible date.
AdvertDetails ==
    { Advert("AD001", "Client A", "Full Page", "Back Cover", "2025-01-15", ""),
      Advert("", "Client C", "Quarter Page", "Middle Page", "InvalidDate", ""),
      Advert("AD003", "", "InvalidSize", "Side Cover", "2025-03-10", ""),
      Advert("AD002", "Client B", "Half Page", "", "2025-03-10", ""),
      Advert("AD002", "Client B", "Half Page", "Front Cover", "2025-02-30", "") }

AdvertIds == {"AD001", "AD002"}

\* update_advert arguments (size, placement, publication_date): omitted
\* (None), empty, valid and invalid values.
UpdateArgs ==
    { <<None, "Front Cover", None>>,
      <<"InvalidSize", "", "2025-03-10">>,
      <<None, None, None>> }

\* The update of the spec's example: placement alone.
PlacementUpdate == { <<None, "Front Cover", None>> }

IssueDates == {"2025-03-01", "2025-02-01"}

OneIssueDate == {"2025-03-01"}

\* Advert objects built with the constructor directly, status argument
\* included: one with the advert id the marketing store uses, one without.
PublishedObject ==
    { Advert("AD001", "Client A", "Half Page", "Front Cover", "", "Published") }

AdvertObjects ==
    PublishedObject
    \cup { Advert("AD002", "Client B", "Quarter Page", "Back Cover",
                  "2025-03-10", "Pending") }

Refs == 1..Len(heap)

\* Arguments of the queued commands.
QueuedDetails ==
    { Advert("AD001", "Client A", "Full Page", "Back Cover", "2025-01-15", ""),
      Advert("AD002", "Client B", "Half Page", "Front Cover", "2025-02-01", "") }

QueuedIds == {"AD001"}

QueuedUpdateArgs == { <<"Half Page", "Front Cover", None>> }

QueuedDates == {"2025-03-01"}

\* ---------------------------------------------------------------- calls
\* A direct call of one method: the caller obtains the return value or the
\* exception, and the stores are what the method left.
Do(op, arg, status, r) ==
    /\ pc = "idle"
    /\ SetSt(r.st)
    /\ call' = [op |-> op, arg |-> arg, status |-> status]
    /\ outcome' = IF r.raised THEN Raised(r.ret) ELSE Returned(r.ret)
    /\ pc' = IF r.raised THEN "raised" ELSE "returned"
    /\ UNCHANGED <<command_queue, results, batch, pre>>
    /\ UNCHANGED staff_vars

AdvertInit(objects) ==
    \E a \in objects :
        /\ Len(heap) - Cardinality(DOMAIN adverts) < MaxObjects
        /\ Do("Advert", CreateAdvertCommand(a), a.status,
              Return([St EXCEPT !.heap = Append(@, a)],
                     RetAdvert(Len(heap) + 1)))

CreateAdvert ==
    \E d \in AdvertDetails :
        /\ Do("create_advert", CreateAdvertCommand(d), "",
              create_advert(St, d.advert_id, d.client_name, d.size, d.placement,
                            d.publication_date))

UpdateAdvert(args) ==
    \E id \in AdvertIds, u \in args :
        Do("update_advert", UpdateAdvertCommand(id, u[1], u[2], u[3]), "",
           update_advert(St, id, u[1], u[2], u[3]))

CancelAdvert ==
    \E id \in AdvertIds :
        Do("cancel_advert", CancelAdvertCommand(id), "", cancel_advert(St, id))

UpdateAdvertInIssue(dates) ==
    \E advert \in Refs, d \in dates :
        Do("update_advert_in_issue", UpdateAdvertInIssueCommand(advert, d), "",
           update_advert_in_issue(St, advert, d))

RemoveAdvertFromIssue(dates) ==
    \E id \in AdvertIds, d \in dates :
        Do("remove_advert_from_issue", RemoveAdvertFromIssueCommand(id, d), "",
           remove_advert_from_issue(St, id, d))

StoreAdvert ==
    \E advert \in Refs :
        /\ Len(stored_adverts) < MaxStored
        /\ Do("store_advert", StoreAdvertCommand(advert), "",
              store_advert(St, advert))

\* The caller goes on after a call: the outcome it held is gone.
Continue ==
    /\ pc \in {"returned", "raised"}
    /\ pc' = "idle"
    /\ call' = NoCall
    /\ outcome' = NoOutcome
    /\ results' = <<>>
    /\ batch' = <<>>
    /\ pre' = EmptySt
    /\ staff_call' = NoStaffCall
    /\ UNCHANGED <<heap, adverts, magazine_issues, stored_adverts,
                   command_queue, staff, used_staff_ids, placed>>

\* ---------------------------------------------------------------- staff calls
StaffClasses == {"MarketingDeptStaff", "Editor", "ProcessingCentreStaff"}

\* staff_id arguments: ids of src/testing.py and __main__, the negative id
\* and the non-integer id of test_data_for_staff.
StaffIds ==
    { IntId(100000), IntId(200000), IntId(300000), IntId(-1),
      [isint |-> FALSE, n |-> 0] }

Salaries == {50000, 1}

Departments == valid_departments \cup {""}

RemoveAt(s, i) == SubSeq(s, 1, i - 1) \o SubSeq(s, i + 1, Len(s))

\* cls(staff_id, salary, dept).  The object of a failed construction is
\* unreachable once the exception has left __init__, and is finalised.
StaffInit ==
    \E cls \in StaffClasses, staff_id \in StaffIds, salary \in Salaries,
       dept \in Departments :
        LET r == staff_init(used_staff_ids, cls, staff_id, salary, dept)
        IN /\ pc = "idle"
           /\ ~r.raised => Len(staff) < MaxStaff
           /\ call' = [op |-> "__init__", arg |-> NoCommand, status |-> ""]
           /\ staff_call' = [cls |-> cls, staff_id |-> staff_id,
                             salary |-> salary, dept |-> dept]
           /\ IF r.raised
              THEN /\ staff' = staff
                   /\ used_staff_ids' = staff_del(r.used, r.self)
                   /\ outcome' = Raised(ValueError(r.error))
                   /\ pc' = "raised"
              ELSE /\ staff' = Append(staff, r.self)
                   /\ used_staff_ids' = r.used
                   /\ outcome' = Returned(RetNone)
                   /\ pc' = "returned"
           /\ UNCHANGED <<heap, adverts, magazine_issues, stored_adverts,
                          command_queue, results, batch, pre, placed>>

\* The last reference to a live staff object goes away: __del__ runs.
StaffDel ==
    \E i \in 1..Len(staff) :
        /\ pc = "idle"
        /\ call' = [op |-> "__del__", arg |-> NoCommand, status |-> ""]
        /\ staff_call' = [cls |-> staff[i].cls,
                          staff_id |-> IntId(staff[i].staff_id),
                          salary |-> staff[i].salary, dept |-> staff[i].dept]
        /\ used_staff_ids' = staff_del(used_staff_ids, staff[i])
        /\ staff' = RemoveAt(staff, i)
        /\ outcome' = Returned(RetNone)
        /\ pc' = "returned"
        /\ UNCHANGED <<heap, adverts, magazine_issues, stored_adverts,
                       command_queue, results, batch, pre, placed>>

\* ---------------------------------------------------------------- invoker
\* Mutant of pop_0: list.pop(), which takes the last element.
pop_last(q) == [item |-> q[Len(q)], rest |-> SubSeq(q, 1, Len(q) - 1)]

\* list.pop(0): the head, and the list without it.
pop_0(q) == [item |-> Head(q), rest |-> Tail(q)]

\* The commands a caller builds: bound to the stores, to argument values and,
\* for the editor and processing commands, to an existing Advert object.
Commands ==
    {CreateAdvertCommand(d) : d \in QueuedDetails}
    \cup {UpdateAdvertCommand(id, u[1], u[2], u[3]) :
              id \in QueuedIds, u \in QueuedUpdateArgs}
    \cup {CancelAdvertCommand(id) : id \in QueuedIds}
    \cup {UpdateAdvertInIssueCommand(a, d) : a \in Refs, d \in QueuedDates}
    \cup {RemoveAdvertFromIssueCommand(id, d) :
              id \in QueuedIds, d \in QueuedDates}
    \cup {StoreAdvertCommand(a) : a \in Refs}

IsStore(c) == c.type = "StoreAdvertCommand"

\* The commands __main__ builds: the six command types on advert AD001.
MainCommands ==
    {c \in Commands : c.type = "CreateAdvertCommand" => c.advert_id = "AD001"}

\* self.command_queue.append(command), the command one of commands.
add_command_of(commands) ==
    \E command \in commands :
        /\ pc = "idle"
        /\ Len(command_queue) < MaxQueue
        /\ command.type = "StoreAdvertCommand" =>
               Len(stored_adverts) + Len(SelectSeq(command_queue, IsStore))
                   < MaxStored
        /\ command_queue' = Append(command_queue, command)
        /\ UNCHANGED <<heap, adverts, magazine_issues, stored_adverts, pc,
                       results, call, outcome, batch, pre>>
        /\ UNCHANGED <<staff_vars, placed>>

add_command == add_command_of(Commands)

\* Mutant of clear_command_queue: list.pop() in place of list.clear(), only
\* the last command goes.
clear_command_queue_pop ==
    /\ pc = "idle"
    /\ command_queue' = SubSeq(command_queue, 1, Len(command_queue) - 1)
    /\ call' = [op |-> "clear_command_queue", arg |-> NoCommand, status |-> ""]
    /\ outcome' = Returned(RetNone)
    /\ pc' = "returned"
    /\ batch' = command_queue
    /\ UNCHANGED <<heap, adverts, magazine_issues, stored_adverts, results,
                   pre>>
    /\ UNCHANGED <<staff_vars, placed>>

\* self.command_queue.clear()
clear_command_queue ==
    /\ pc = "idle"
    /\ command_queue' = <<>>
    /\ call' = [op |-> "clear_command_queue", arg |-> NoCommand, status |-> ""]
    /\ outcome' = Returned(RetNone)
    /\ pc' = "returned"
    /\ batch' = command_queue
    /\ UNCHANGED <<heap, adverts, magazine_issues, stored_adverts, results,
                   pre>>
    /\ UNCHANGED <<staff_vars, placed>>

\* Mutant of execute_commands: an empty queue is an error.
execute_commands_empty_raises ==
    /\ pc = "idle"
    /\ results' = <<>>
    /\ call' = [op |-> "execute_commands", arg |-> NoCommand, status |-> ""]
    /\ batch' = command_queue
    /\ pre' = St
    /\ IF command_queue = <<>>
       THEN /\ pc' = "raised"
            /\ outcome' = Raised(ValueError("No commands to execute"))
       ELSE /\ pc' = "loop"
            /\ outcome' = outcome
    /\ UNCHANGED <<heap, adverts, magazine_issues, stored_adverts,
                   command_queue>>
    /\ UNCHANGED <<staff_vars, placed>>

\* execute_commands, entry: results = [] (the "No commands to execute" line
\* printed for an empty queue is console output and changes no state).
execute_commands ==
    /\ pc = "idle"
    /\ pc' = "loop"
    /\ results' = <<>>
    /\ call' = [op |-> "execute_commands", arg |-> NoCommand, status |-> ""]
    /\ batch' = command_queue
    /\ pre' = St
    /\ UNCHANGED <<heap, adverts, magazine_issues, stored_adverts,
                   command_queue, outcome>>
    /\ UNCHANGED <<staff_vars, placed>>

\* Mutant of execute_commands_loop: a failure hands the caller the results
\* collected so far together with the exception.
execute_commands_loop_partial ==
    /\ pc = "loop"
    /\ command_queue # <<>>
    /\ LET p == pop_0(command_queue)
           r == execute(p.item, St)
       IN /\ command_queue' = p.rest
          /\ SetSt(r.st)
          /\ IF r.raised
             THEN /\ pc' = "raised"
                  /\ outcome' = [Raised(r.ret) EXCEPT !.list = results]
                  /\ results' = <<>>
             ELSE /\ pc' = "loop"
                  /\ outcome' = outcome
                  /\ results' = Append(results, r.ret)
    /\ UNCHANGED <<call, batch, pre>>
    /\ UNCHANGED staff_vars

\* Mutant of execute_commands_loop: a failure rolls the stores back to what
\* they were when the batch started.
execute_commands_loop_rollback ==
    /\ pc = "loop"
    /\ command_queue # <<>>
    /\ LET p == pop_0(command_queue)
           r == execute(p.item, St)
       IN /\ command_queue' = p.rest
          /\ IF r.raised
             THEN /\ SetSt(pre)
                  /\ pc' = "raised"
                  /\ outcome' = Raised(r.ret)
                  /\ results' = <<>>
             ELSE /\ SetSt(r.st)
                  /\ pc' = "loop"
                  /\ outcome' = outcome
                  /\ results' = Append(results, r.ret)
    /\ UNCHANGED <<call, batch, pre>>
    /\ UNCHANGED staff_vars

\* Mutant of execute_commands_loop: a command on an advert sees the status
\* the advert had when the batch was started, a snapshot.
execute_commands_loop_snapshot ==
    /\ pc = "loop"
    /\ command_queue # <<>>
    /\ LET p == pop_0(command_queue)
           snapshot ==
               IF p.item.type \in {"UpdateAdvertInIssueCommand",
                                   "StoreAdvertCommand"}
               THEN [St EXCEPT !.heap[p.item.advert].status =
                                   pre.heap[p.item.advert].status]
               ELSE St
           r == execute(p.item, snapshot)
       IN /\ command_queue' = p.rest
          /\ SetSt(r.st)
          /\ IF r.raised
             THEN /\ pc' = "raised"
                  /\ outcome' = Raised(r.ret)
                  /\ results' = <<>>
             ELSE /\ pc' = "loop"
                  /\ outcome' = outcome
                  /\ results' = Append(results, r.ret)
    /\ UNCHANGED <<call, batch, pre>>
    /\ UNCHANGED staff_vars

\* Mutant of execute_commands_loop: a command that raises is caught and left
\* at the head of the queue, to be tried again.
execute_commands_loop_retry ==
    /\ pc = "loop"
    /\ command_queue # <<>>
    /\ LET p == pop_0(command_queue)
           r == execute(p.item, St)
       IN /\ command_queue' = IF r.raised THEN command_queue ELSE p.rest
          /\ SetSt(r.st)
          /\ pc' = "loop"
          /\ outcome' = outcome
          /\ results' = IF r.raised THEN results ELSE Append(results, r.ret)
    /\ UNCHANGED <<call, batch, pre>>
    /\ UNCHANGED staff_vars

\* One turn of `while self.command_queue`: pop the head, execute it, append
\* its result.  An exception leaves the loop and the method: the local
\* results list is lost with the frame.
execute_commands_loop ==
    /\ pc = "loop"
    /\ command_queue # <<>>
    /\ LET p == pop_0(command_queue)
           r == execute(p.item, St)
       IN /\ command_queue' = p.rest
          /\ SetSt(r.st)
          /\ IF r.raised
             THEN /\ pc' = "raised"
                  /\ outcome' = Raised(r.ret)
                  /\ results' = <<>>
             ELSE /\ pc' = "loop"
                  /\ outcome' = outcome
                  /\ results' = Append(results, r.ret)
    /\ UNCHANGED <<call, batch, pre>>
    /\ UNCHANGED staff_vars

execute_commands_return ==
    /\ pc = "loop"
    /\ command_queue = <<>>
    /\ pc' = "returned"
    /\ outcome' = ReturnedList(results)
    /\ results' = <<>>
    /\ UNCHANGED <<heap, adverts, magazine_issues, stored_adverts,
                   command_queue, call, batch, pre>>
    /\ UNCHANGED <<staff_vars, placed>>

\* Every store method called directly, one issue date.
Next ==
    \/ AdvertInit(PublishedObject)
    \/ CreateAdvert
    \/ UpdateAdvert(PlacementUpdate)
    \/ CancelAdvert
    \/ UpdateAdvertInIssue(OneIssueDate)
    \/ RemoveAdvertFromIssue(OneIssueDate)
    \/ StoreAdvert
    \/ Continue

Spec == Init /\ [][Next]_vars

\* The marketing and editor methods called directly, two issue dates.
NextIssues ==
    \/ AdvertInit(AdvertObjects)
    \/ CreateAdvert
    \/ UpdateAdvert(UpdateArgs)
    \/ CancelAdvert
    \/ UpdateAdvertInIssue(IssueDates)
    \/ RemoveAdvertFromIssue(IssueDates)
    \/ Continue

SpecIssues == Init /\ [][NextIssues]_vars

\* Every mutation queued as a command and run by the invoker.
NextInvoker ==
    \/ add_command
    \/ clear_command_queue
    \/ execute_commands
    \/ execute_commands_loop
    \/ execute_commands_return
    \/ Continue

SpecInvoker == Init /\ [][NextInvoker]_vars

\* The commands of __main__ queued and run.  execute_commands runs on one
\* thread that nothing suspends: once entered, the loop takes its next turn
\* and, the queue empty, the method returns.
NextMain ==
    \/ add_command_of(MainCommands)
    \/ clear_command_queue
    \/ execute_commands
    \/ execute_commands_loop
    \/ execute_commands_return
    \/ Continue

SpecInvokerFair ==
    /\ Init
    /\ [][NextMain]_vars
    /\ WF_vars(execute_commands_loop)
    /\ WF_vars(execute_commands_return)

\* Staff objects of the three subclasses constructed and destroyed.
NextStaff ==
    \/ StaffInit
    \/ StaffDel
    \/ Continue

SpecStaff == InitStaff /\ [][NextStaff]_vars

\* ================================================================ claims
\* Reference for the batch claims: the commands cmds run one after the other
\* from the stores st, stopping at the first that raises.  failed is the
\* position of that command (0 when none raises), error what it raised,
\* results the values returned before it, st the stores the commands before
\* it left.
RECURSIVE Sequential(_, _)
Sequential(st, cmds) ==
    IF cmds = <<>>
    THEN [st |-> st, results |-> <<>>, failed |-> 0, error |-> RetNone]
    ELSE LET r == execute(Head(cmds), st) IN
         IF r.raised
         THEN [st |-> st, results |-> <<>>, failed |-> 1, error |-> r.ret]
         ELSE LET rest == Sequential(r.st, Tail(cmds)) IN
              [st |-> rest.st,
               results |-> <<r.ret>> \o rest.results,
               failed |-> IF rest.failed = 0 THEN 0 ELSE rest.failed + 1,
               error |-> rest.error]

BatchFailed == pc = "raised" /\ call.op = "execute_commands"

BatchReturned == pc = "returned" /\ call.op = "execute_commands"

\* C1: when command K of a batch of N fails, the failure reaches the caller,
\* command K is gone from the queue, and the queue holds exactly commands
\* K+1..N in their original order.
C1_FailureLeavesRest ==
    BatchFailed =>
        LET K == Sequential(pre, batch).failed IN
        /\ K \in 1..Len(batch)
        /\ outcome.kind = "raise"
        /\ outcome.ret = Sequential(pre, batch).error
        /\ command_queue = SubSeq(batch, K + 1, Len(batch))

C1_Witness ==
    /\ BatchFailed
    /\ Len(batch) = 2
    /\ Sequential(pre, batch).failed = 1
    /\ command_queue = <<batch[2]>>

\* C2 as stated: when command K fails, the caller obtains the results of
\* commands 1..K-1 together with K's failure.
C2_PartialResultsObtained ==
    BatchFailed =>
        /\ outcome.ret = Sequential(pre, batch).error
        /\ outcome.list = Sequential(pre, batch).results

\* C2 amended: when command K fails, the caller obtains K's failure and
\* nothing else; the results of commands 1..K-1 are not handed over.
C2_OnlyFailureObtained ==
    BatchFailed =>
        /\ outcome.kind = "raise"
        /\ outcome.ret = Sequential(pre, batch).error
        /\ outcome.list = <<>>
        /\ results = <<>>

C2_Witness ==
    /\ BatchFailed
    /\ Sequential(pre, batch).failed = 2
    /\ Len(Sequential(pre, batch).results) = 1
    /\ outcome.list = <<>>

\* C3: batch execution is not transactional: when command K fails, the
\* stores are exactly what commands 1..K-1 left (their mutations in place,
\* nothing of K+1..N applied).
C3_NotTransactional ==
    BatchFailed => St = Sequential(pre, batch).st

C3_Witness ==
    /\ BatchFailed
    /\ Sequential(pre, batch).failed = 2
    /\ St # pre
    /\ St.heap # pre.heap

\* C4: commands run in the order add_command queued them, head first, each
\* once; when all succeed the results are the N return values in that order.
C4_ResultsInOrder ==
    BatchReturned =>
        /\ Sequential(pre, batch).failed = 0
        /\ Len(outcome.list) = Len(batch)
        /\ outcome.list = Sequential(pre, batch).results
        /\ St = Sequential(pre, batch).st
        /\ command_queue = <<>>

C4_AddAtTail ==
    (pc = "idle" /\ pc' = "idle" /\ command_queue' # command_queue) =>
        /\ Len(command_queue') = Len(command_queue) + 1
        /\ SubSeq(command_queue', 1, Len(command_queue)) = command_queue

C4_Fifo == []C4_ResultsInOrder /\ [][C4_AddAtTail]_vars

C4_Witness ==
    /\ BatchReturned
    /\ Len(batch) = 2
    /\ batch[1] # batch[2]
    /\ Len(outcome.list) = 2
    /\ outcome.list[1] # outcome.list[2]

\* ---------------------------------------------------------------- direct calls
\* A step that is the direct call of method op: the unprimed variables are
\* the state before the call, the primed ones the state after it.
Calls(op) == pc = "idle" /\ call'.op = op

StoresUnchanged ==
    UNCHANGED <<heap, adverts, magazine_issues, stored_adverts>>

InIssue(issues, d, a) ==
    d \in DOMAIN issues /\ \E i \in 1..Len(issues[d]) : issues[d][i] = a

\* Another Advert object with the advert_id of object a is an entry of
\* issue d.
OtherWithSameId(h, issues, d, a) ==
    /\ d \in DOMAIN issues
    /\ \E i \in 1..Len(issues[d]) :
           issues[d][i] # a /\ h[issues[d][i]].advert_id = h[a].advert_id

\* C5: update_advert_in_issue with a Cancelled advert fails, whatever the
\* issue date and the issues held, and leaves the issue mapping (no entry
\* appended, no issue date created) and the advert unchanged.
C5_CancelledRejected ==
    [][(Calls("update_advert_in_issue")
            /\ heap[call'.arg.advert].status = "Cancelled")
        => /\ pc' = "raised"
           /\ outcome'.kind = "raise"
           /\ StoresUnchanged]_vars

C5_Witness ==
    /\ pc = "raised"
    /\ call.op = "update_advert_in_issue"
    /\ heap[call.arg.advert].status = "Cancelled"
    /\ call.arg.issue_date \notin DOMAIN magazine_issues
    /\ \E d \in DOMAIN magazine_issues : magazine_issues[d] # <<>>

\* C6 as stated: a successful update_advert_in_issue of a Pending or
\* Approved advert leaves that advert Approved and present in the issue,
\* whatever the issue held before.
C6_AlwaysApprovedAndPresent ==
    [][(Calls("update_advert_in_issue")
            /\ heap[call'.arg.advert].status \in {"Pending", "Approved"}
            /\ pc' = "returned")
        => /\ heap'[call'.arg.advert].status = "Approved"
           /\ InIssue(magazine_issues', call'.arg.issue_date,
                      call'.arg.advert)]_vars

\* C6 amended: a successful update_advert_in_issue of a Pending or Approved
\* advert leaves that advert Approved and present in the issue, unless the
\* issue already holds another Advert object with the same advert_id: then
\* the call succeeds without adding the advert or changing its status.
C6_ApprovedUnlessOtherEntry ==
    [][(Calls("update_advert_in_issue")
            /\ heap[call'.arg.advert].status \in {"Pending", "Approved"})
        => LET a == call'.arg.advert
               d == call'.arg.issue_date
           IN /\ pc' = "returned"
              /\ IF OtherWithSameId(heap, magazine_issues, d, a)
                 THEN /\ heap'[a].status = heap[a].status
                      /\ magazine_issues' = magazine_issues
                      /\ ~InIssue(magazine_issues', d, a)
                 ELSE /\ heap'[a].status = "Approved"
                      /\ InIssue(magazine_issues', d, a)]_vars

C6_Witness ==
    /\ pc = "returned"
    /\ call.op = "update_advert_in_issue"
    /\ heap[call.arg.advert].status = "Approved"
    /\ call.arg.issue_date \in DOMAIN magazine_issues
    /\ Len(magazine_issues[call.arg.issue_date]) = 2
    /\ magazine_issues[call.arg.issue_date][2] = call.arg.advert

\* C7: store_advert succeeds exactly when the advert is Approved; it then
\* appends the advert at the tail of the stored sequence, already stored or
\* not, and leaves its status alone; for any other status it fails and the
\* stored sequence is unchanged.
C7_StoreOnlyApproved ==
    [][Calls("store_advert")
        => LET a == call'.arg.advert IN
           IF heap[a].status = "Approved"
           THEN /\ pc' = "returned"
                /\ stored_adverts' = Append(stored_adverts, a)
                /\ UNCHANGED <<heap, adverts, magazine_issues>>
           ELSE /\ pc' = "raised"
                /\ StoresUnchanged]_vars

C7_Witness ==
    /\ pc = "returned"
    /\ call.op = "store_advert"
    /\ Len(stored_adverts) = 2
    /\ stored_adverts[1] = call.arg.advert
    /\ stored_adverts[2] = call.arg.advert
    /\ heap[call.arg.advert].status = "Approved"

\* C8: cancel_advert fails and changes nothing for an id the store does not
\* hold; otherwise it sets the status to Cancelled whatever it was, changes
\* no other field and no collection, and cancelling a Cancelled advert
\* succeeds and changes nothing.
C8_CancelSetsCancelled ==
    [][Calls("cancel_advert")
        => LET id == call'.arg.advert_id IN
           IF id \notin DOMAIN adverts
           THEN pc' = "raised" /\ StoresUnchanged
           ELSE /\ pc' = "returned"
                /\ heap' = [heap EXCEPT ![adverts[id]].status = "Cancelled"]
                /\ UNCHANGED <<adverts, magazine_issues, stored_adverts>>
                /\ heap[adverts[id]].status = "Cancelled" => heap' = heap]_vars

C8_Witness ==
    /\ pc = "returned"
    /\ call.op = "cancel_advert"
    /\ heap[adverts[call.arg.advert_id]].status = "Cancelled"
    /\ \E d \in DOMAIN magazine_issues :
           InIssue(magazine_issues, d, adverts[call.arg.advert_id])
    /\ \E i \in 1..Len(stored_adverts) :
           stored_adverts[i] = adverts[call.arg.advert_id]

\* C9: create_advert with valid fields and a free advert_id inserts and
\* returns a new Pending advert under that id; with an advert_id the store
\* holds it fails and changes nothing; the store never holds two adverts with
\* one advert_id.
ValidDetails(d) ==
    /\ Truthy(d.advert_id)
    /\ Truthy(d.client_name)
    /\ d.size \in ValidSizes
    /\ Truthy(d.placement)
    /\ is_valid_date(d.publication_date)

C9_CreateStep ==
    Calls("create_advert")
    => LET d == call'.arg
           ref == Len(heap) + 1
       IN /\ (ValidDetails(d) /\ d.advert_id \notin DOMAIN adverts)
                 => /\ pc' = "returned"
                    /\ outcome'.ret = RetAdvert(ref)
                    /\ heap' = Append(heap,
                                      Advert(d.advert_id, d.client_name, d.size,
                                             d.placement, d.publication_date,
                                             "Pending"))
                    /\ DOMAIN adverts' = DOMAIN adverts \cup {d.advert_id}
                    /\ adverts'[d.advert_id] = ref
                    /\ \A id \in DOMAIN adverts : adverts'[id] = adverts[id]
                    /\ UNCHANGED <<magazine_issues, stored_adverts>>
          /\ d.advert_id \in DOMAIN adverts
                 => pc' = "raised" /\ StoresUnchanged

C9_OnePerId ==
    \A id \in DOMAIN adverts :
        /\ adverts[id] \in 1..Len(heap)
        /\ heap[adverts[id]].advert_id = id

C9_CreateUniqueIds == []C9_OnePerId /\ [][C9_CreateStep]_vars

C9_Witness ==
    /\ pc = "raised"
    /\ call.op = "create_advert"
    /\ ValidDetails(call.arg)
    /\ call.arg.advert_id \in DOMAIN adverts
    /\ heap[adverts[call.arg.advert_id]].status = "Cancelled"

\* C10 as stated: update_advert fails and changes nothing for an absent id;
\* otherwise it overwrites exactly the supplied (not omitted) fields among
\* size, placement and publication_date and leaves everything else as it
\* was.
Merged(a, size, placement, publication_date, Supplied(_)) ==
    [a EXCEPT !.size = IF Supplied(size) THEN size ELSE @,
              !.placement = IF Supplied(placement) THEN placement ELSE @,
              !.publication_date =
                  IF Supplied(publication_date) THEN publication_date ELSE @]

UpdateStep(Supplied(_)) ==
    Calls("update_advert")
    => LET u == call'.arg IN
       IF u.advert_id \notin DOMAIN adverts
       THEN pc' = "raised" /\ StoresUnchanged
       ELSE /\ pc' = "returned"
            /\ heap' = [heap EXCEPT ![adverts[u.advert_id]] =
                            Merged(@, u.size, u.placement, u.publication_date,
                                   Supplied)]
            /\ UNCHANGED <<adverts, magazine_issues, stored_adverts>>

NotOmitted(x) == x # None

C10_SuppliedFieldsOverwritten == [][UpdateStep(NotOmitted)]_vars

\* C10 amended: update_advert fails and changes nothing for an absent id;
\* otherwise it overwrites exactly the fields supplied with a non-empty
\* value (an empty string counts as omitted) and leaves advert_id,
\* client_name, status, the other fields and every collection as they were,
\* whatever the advert's status.
C10_NonEmptyFieldsOverwritten == [][UpdateStep(Truthy)]_vars

C10_Witness ==
    /\ pc = "returned"
    /\ call.op = "update_advert"
    /\ heap[adverts[call.arg.advert_id]].status = "Cancelled"
    /\ call.arg.size # None
    /\ heap[adverts[call.arg.advert_id]].size = call.arg.size
    /\ call.arg.placement = ""
    /\ heap[adverts[call.arg.advert_id]].placement # ""
    /\ \E d \in DOMAIN magazine_issues :
           InIssue(magazine_issues, d, adverts[call.arg.advert_id])

CountId(h, issue, advert_id) ==
    Cardinality({i \in 1..Len(issue) : h[issue[i]].advert_id = advert_id})

IssueOrEmpty(issues, d) == IF d \in DOMAIN issues THEN issues[d] ELSE <<>>

C11_OnePerId ==
    \A d \in DOMAIN magazine_issues :
        \A i, j \in 1..Len(magazine_issues[d]) :
            heap[magazine_issues[d][i]].advert_id
                = heap[magazine_issues[d][j]].advert_id => i = j

C11_PlaceStep ==
    Calls("update_advert_in_issue") /\ pc' = "returned"
    => LET a == call'.arg.advert
           d == call'.arg.issue_date
           before == IssueOrEmpty(magazine_issues, d)
       IN /\ CountId(heap', magazine_issues'[d], heap[a].advert_id) = 1
          /\ CountId(heap, before, heap[a].advert_id) = 0
                 => magazine_issues'[d] = Append(before, a)
          /\ CountId(heap, before, heap[a].advert_id) > 0
                 => Len(magazine_issues'[d]) = Len(before)

\* C11: in every reachable state each issue holds at most one entry per
\* advert_id; placing an advert into an issue without an entry of its
\* advert_id makes it appear exactly once, and placing an advert whose
\* advert_id is already under that issue date adds no second entry.
C11_AtMostOnePerId == []C11_OnePerId /\ [][C11_PlaceStep]_vars

\* A placement that met an entry of another object with its advert_id.
C11_Witness ==
    /\ pc = "returned"
    /\ call.op = "update_advert_in_issue"
    /\ OtherWithSameId(heap, magazine_issues, call.arg.issue_date,
                       call.arg.advert)
    /\ ~InIssue(magazine_issues, call.arg.issue_date, call.arg.advert)

EntriesWithId(h, issue, advert_id) ==
    {issue[i] : i \in {j \in 1..Len(issue) : h[issue[j]].advert_id = advert_id}}

\* A placement of a non-Cancelled advert.  Merge path: the issue mapping is
\* unchanged and the one object that changes is the existing entry, whose
\* size, placement and publication_date become those of the passed advert
\* where Supplied, its status and every other advert staying as they were.
\* Append path: the one change to an advert is the passed advert's status.
PlaceStep(Supplied(_)) ==
    Calls("update_advert_in_issue")
    /\ heap[call'.arg.advert].status # "Cancelled"
    => LET a == call'.arg.advert
           d == call'.arg.issue_date
           entries == EntriesWithId(heap, IssueOrEmpty(magazine_issues, d),
                                    heap[a].advert_id)
       IN /\ pc' = "returned"
          /\ UNCHANGED <<adverts, stored_adverts>>
          /\ IF entries # {}
             THEN /\ magazine_issues' = magazine_issues
                  /\ heap' = [heap EXCEPT ![CHOOSE e \in entries : TRUE] =
                                 Merged(@, heap[a].size, heap[a].placement,
                                        heap[a].publication_date, Supplied)]
             ELSE heap' = [heap EXCEPT ![a].status = "Approved"]

Always(x) == TRUE

\* C12: in the merge path of update_advert_in_issue the issue keeps its
\* entries in order, the existing entry's size, placement and
\* publication_date take the values of the passed advert, and no advert's
\* status changes; only the append path sets a status to Approved.
C12_EntryTakesPassedValues == [][PlaceStep(Always)]_vars

\* C12 amended: as C12, the existing entry taking each of the passed
\* advert's size, placement and publication_date that is non-empty and
\* keeping its own value for a field the passed advert holds empty.
C12_EntryTakesNonEmptyValues == [][PlaceStep(Truthy)]_vars

\* A merge into the entry of another object: the entry took the passed
\* advert's size, kept its own date and status, and the passed advert was
\* not approved.
C12_Witness ==
    /\ pc = "returned"
    /\ call.op = "update_advert_in_issue"
    /\ ~InIssue(magazine_issues, call.arg.issue_date, call.arg.advert)
    /\ \E e \in EntriesWithId(heap, magazine_issues[call.arg.issue_date],
                              heap[call.arg.advert].advert_id) :
           /\ heap[e].size = heap[call.arg.advert].size
           /\ heap[e].placement = heap[call.arg.advert].placement
           /\ heap[e].publication_date # heap[call.arg.advert].publication_date
           /\ heap[e].status = "Approved"
    /\ heap[call.arg.advert].status = "Published"

\* The commands of the batch that have been taken from the queue.
Executed == Len(batch) - Len(command_queue)

\* The stores as command i of the batch finds them.
AtTurn(i) == Sequential(pre, SubSeq(batch, 1, i - 1)).st

OnAdvert(c) ==
    c.type \in {"UpdateAdvertInIssueCommand", "StoreAdvertCommand"}

\* C13: a command holds a reference to its advert, not a snapshot: an
\* UpdateAdvertInIssueCommand or StoreAdvertCommand whose advert is
\* Cancelled when its turn comes, whatever the status was when the command
\* was made or the batch started, fails on the status guard: it is the
\* last command taken, the caller holds its exception, and it changed
\* nothing.
C13_GuardAtExecution ==
    call.op = "execute_commands" /\ pc \in {"returned", "raised"}
    => \A i \in 1..Executed :
           OnAdvert(batch[i])
           /\ AtTurn(i).heap[batch[i].advert].status = "Cancelled"
           => /\ pc = "raised"
              /\ i = Executed
              /\ outcome.ret.kind = "ValueError"
              /\ St = AtTurn(i)

\* The queue [CancelAdvertCommand, UpdateAdvertInIssueCommand or
\* StoreAdvertCommand] on one advert, Pending or Approved when the commands
\* were queued: the second command failed.
C13_Witness ==
    /\ BatchFailed
    /\ Len(batch) = 2
    /\ batch[1].type = "CancelAdvertCommand"
    /\ OnAdvert(batch[2])
    /\ batch[1].advert_id \in DOMAIN pre.adverts
    /\ pre.adverts[batch[1].advert_id] = batch[2].advert
    /\ pre.heap[batch[2].advert].status = "Approved"
    /\ heap[batch[2].advert].status = "Cancelled"
    /\ command_queue = <<>>

\* After a change made through the marketing mapping to the advert that was
\* object r, every issue position and every stored position that held r
\* reads the very state the marketing mapping reads.
SeenEverywhere(advert_id, r) ==
    /\ \A d \in DOMAIN magazine_issues :
           \A i \in 1..Len(magazine_issues[d]) :
               magazine_issues[d][i] = r
               => /\ d \in DOMAIN magazine_issues'
                  /\ i <= Len(magazine_issues'[d])
                  /\ heap'[magazine_issues'[d][i]] = heap'[adverts'[advert_id]]
    /\ \A i \in 1..Len(stored_adverts) :
           stored_adverts[i] = r
           => /\ i <= Len(stored_adverts')
              /\ heap'[stored_adverts'[i]] = heap'[adverts'[advert_id]]

C14_Step ==
    /\ Calls("update_advert_in_issue") /\ pc' = "returned"
       => /\ Len(heap') = Len(heap)
          /\ IssueEntries(magazine_issues')
                 \subseteq IssueEntries(magazine_issues) \cup {call'.arg.advert}
    /\ Calls("store_advert") /\ pc' = "returned"
       => /\ Len(heap') = Len(heap)
          /\ stored_adverts' = Append(stored_adverts, call'.arg.advert)
    /\ Calls("cancel_advert") /\ pc' = "returned"
       => /\ heap'[adverts'[call'.arg.advert_id]].status = "Cancelled"
          /\ SeenEverywhere(call'.arg.advert_id, adverts[call'.arg.advert_id])
    /\ Calls("update_advert") /\ pc' = "returned"
       => /\ Truthy(call'.arg.placement)
             => heap'[adverts'[call'.arg.advert_id]].placement
                    = call'.arg.placement
          /\ SeenEverywhere(call'.arg.advert_id, adverts[call'.arg.advert_id])

\* C14: an advert has one state shared by all stores.  The editor and the
\* processing centre put the object they are passed into their sequences,
\* never a new object, so what is read through the marketing mapping,
\* through an issue entry and through a stored entry of one advert is the
\* same state; a cancel or update made through the marketing store is seen
\* at once through the issue and stored entries of that advert.
C14_SharedState == [][C14_Step]_vars

\* An update through the marketing store of an advert that is in an issue
\* and in the stored sequence, read back through both.
C14_Witness ==
    /\ pc = "returned"
    /\ call.op = "update_advert"
    /\ \E d \in DOMAIN magazine_issues :
           \E i \in 1..Len(magazine_issues[d]) :
               /\ magazine_issues[d][i] = adverts[call.arg.advert_id]
               /\ heap[magazine_issues[d][i]].placement = call.arg.placement
    /\ \E i \in 1..Len(stored_adverts) :
           /\ stored_adverts[i] = adverts[call.arg.advert_id]
           /\ heap[stored_adverts[i]].placement = call.arg.placement
    /\ heap[adverts[call.arg.advert_id]].placement = "Front Cover"

C15_ClearStep ==
    Calls("clear_command_queue")
    => /\ pc' = "returned"
       /\ command_queue' = <<>>
       /\ results' = results
       /\ StoresUnchanged
       /\ UNCHANGED <<staff, used_staff_ids>>

\* execute_commands entered with nothing queued, as it is right after a
\* clear: the next step is its return, with no result and no change.
C15_RunAfterClear ==
    pc = "loop" /\ batch = <<>>
    => /\ pc' = "returned"
       /\ outcome' = ReturnedList(<<>>)
       /\ command_queue' = <<>>
       /\ StoresUnchanged
       /\ UNCHANGED <<staff, used_staff_ids>>

\* C15: clear_command_queue removes every pending command and executes
\* none: the queue is empty afterwards, no store, advert or registry state
\* has changed, and an execute_commands that follows executes nothing and
\* returns an empty results sequence.
C15_ClearDiscards == [][C15_ClearStep /\ C15_RunAfterClear]_vars

\* Two pending commands on existing adverts were discarded.
C15_Witness ==
    /\ pc = "returned"
    /\ call.op = "clear_command_queue"
    /\ Len(batch) = 2
    /\ command_queue = <<>>
    /\ heap # <<>>

\* C16: execute_commands on an empty queue does not fail, returns an empty
\* results sequence, and leaves the queue and all store and advert state
\* as they were.
C16_EmptyRun ==
    call.op = "execute_commands" /\ batch = <<>>
    => /\ pc # "raised"
       /\ command_queue = <<>>
       /\ St = pre
       /\ pc = "returned" => outcome = ReturnedList(<<>>)

\* An empty run returned, the stores holding an advert in an issue.
C16_Witness ==
    /\ BatchReturned
    /\ batch = <<>>
    /\ outcome.list = <<>>
    /\ heap # <<>>
    /\ magazine_issues # EmptyDict

\* after holds the entries of before whose advert_id is not advert_id, in
\* the order they have in before.
RestInOrder(h, before, after, advert_id) ==
    LET kept == {i \in 1..Len(before) : h[before[i]].advert_id # advert_id}
    IN /\ Len(after) = Cardinality(kept)
       /\ \A j \in 1..Len(after) :
              \E i \in kept :
                  /\ Cardinality({k \in kept : k <= i}) = j
                  /\ after[j] = before[i]

C17_RemoveStep ==
    Calls("remove_advert_from_issue")
    => LET id == call'.arg.advert_id
           d == call'.arg.issue_date
       IN IF d \notin DOMAIN magazine_issues
          THEN pc' = "raised" /\ StoresUnchanged
          ELSE /\ pc' = "returned"
               /\ DOMAIN magazine_issues' = DOMAIN magazine_issues
               /\ CountId(heap', magazine_issues'[d], id) = 0
               /\ RestInOrder(heap, magazine_issues[d], magazine_issues'[d], id)
               /\ CountId(heap, magazine_issues[d], id) = 0
                      => magazine_issues' = magazine_issues
               /\ \A e \in DOMAIN magazine_issues \ {d} :
                      magazine_issues'[e] = magazine_issues[e]
               /\ UNCHANGED <<heap, adverts, stored_adverts>>

\* C17: remove_advert_from_issue fails and changes nothing for an unknown
\* issue date; otherwise it succeeds, the issue holds no entry with that
\* advert_id afterwards, the other entries keep their relative order, it
\* changes nothing when the id was not there, and it never changes an
\* advert's status, another issue, the marketing mapping or the stored
\* sequence.
C17_RemoveFromIssue == [][C17_RemoveStep]_vars

\* An advert was taken out of an issue that keeps another entry: the advert
\* is still Approved and in the marketing mapping.
C17_Witness ==
    /\ pc = "returned"
    /\ call.op = "remove_advert_from_issue"
    /\ Len(magazine_issues[call.arg.issue_date]) = 1
    /\ call.arg.advert_id \in DOMAIN adverts
    /\ heap[adverts[call.arg.advert_id]].status = "Approved"
    /\ \A d \in DOMAIN magazine_issues :
           ~InIssue(magazine_issues, d, adverts[call.arg.advert_id])

Inits == pc = "idle" /\ call'.op = "__init__"

\* The live staff objects that hold staff_id n.
Holders(live, n) == {i \in 1..Len(live) : live[i].staff_id = n}

C18_DistinctIds ==
    \A i, j \in 1..Len(staff) : staff[i].staff_id = staff[j].staff_id => i = j

C18_DuplicateStep ==
    Inits /\ staff_call'.staff_id.isint
    /\ Holders(staff, staff_call'.staff_id.n) # {}
    => /\ pc' = "raised"
       /\ staff' = staff
       /\ staff_call'.staff_id.n \in used_staff_ids'
       /\ used_staff_ids' = used_staff_ids

\* C18: after any constructions and destructions of MarketingDeptStaff,
\* Editor and ProcessingCentreStaff objects no two live staff objects have
\* the same staff_id: a construction with the staff_id of a live object of
\* any of the three classes fails, and the holder's id stays registered.
C18_UniqueLiveIds == []C18_DistinctIds /\ [][C18_DuplicateStep]_vars

\* An Editor was refused the staff_id a live MarketingDeptStaff holds,
\* with valid salary and department.
C18_Witness ==
    /\ pc = "raised"
    /\ call.op = "__init__"
    /\ staff_call.cls = "Editor"
    /\ staff_call.salary = 50000
    /\ staff_call.dept = "Editing"
    /\ \E i \in Holders(staff, staff_call.staff_id.n) :
           staff[i].cls = "MarketingDeptStaff"
    /\ staff_call.staff_id.n \in used_staff_ids

\* Arguments that pass the format, salary and department checks.
ValidStaffArgs(c) ==
    /\ c.staff_id.isint
    /\ StrLen(c.staff_id.n) = StaffIdLength
    /\ MinSalary <= c.salary /\ c.salary <= MaxSalary
    /\ c.dept \in valid_departments

C19_Step ==
    /\ Inits
       => IF ValidStaffArgs(staff_call')
             /\ staff_call'.staff_id.n \notin used_staff_ids
          THEN /\ pc' = "returned"
               /\ used_staff_ids' = used_staff_ids \cup {staff_call'.staff_id.n}
               /\ Len(staff') = Len(staff) + 1
               /\ staff'[Len(staff')].staff_id = staff_call'.staff_id.n
          ELSE /\ pc' = "raised"
               /\ used_staff_ids' = used_staff_ids
               /\ staff' = staff
    /\ Calls("__del__")
       => /\ pc' = "returned"
          /\ staff_call'.staff_id.n \in used_staff_ids
          /\ used_staff_ids' = used_staff_ids \ {staff_call'.staff_id.n}
          /\ Len(staff') = Len(staff) - 1

\* C19: a staff construction that fails a check (id format, salary range,
\* department, uniqueness) adds nothing to the staff-id registry;
\* destroying a constructed staff object takes its id, and no other, out
\* of the registry, and a construction with valid arguments and an id that
\* is not in the registry succeeds, so the id can be constructed again.
C19_RegistryFollowsLife == [][C19_Step]_vars

\* A staff object was destroyed while another is live: its id is free and
\* the other's is registered.
C19_Witness ==
    /\ pc = "returned"
    /\ call.op = "__del__"
    /\ staff_call.staff_id.n \notin used_staff_ids
    /\ Len(staff) = 1
    /\ used_staff_ids = {staff[1].staff_id}

\* C20: in every reachable state every advert created through
\* create_advert, the adverts of the marketing mapping, has a size in
\* {Full Page, Half Page, Quarter Page}.
C20_CreatedSizeValid ==
    \A advert_id \in DOMAIN adverts :
        heap[adverts[advert_id]].size \in ValidSizes

\* The adverts made by create_advert: the objects of the marketing mapping.
Created == {adverts[advert_id] : advert_id \in DOMAIN adverts}

C21_ReachedStatuses ==
    \A r \in Created : heap[r].status \in {"Pending", "Approved", "Cancelled"}

\* Whatever the step, a created advert that changes status goes from
\* Pending to Approved in a successful update_advert_in_issue on that very
\* advert, or from Pending or Approved to Cancelled in a successful
\* cancel_advert of its advert_id.
C21_Step ==
    \A r \in Created :
        heap'[r].status # heap[r].status
        => \/ /\ heap[r].status = "Pending"
              /\ heap'[r].status = "Approved"
              /\ Calls("update_advert_in_issue")
              /\ pc' = "returned"
              /\ call'.arg.advert = r
              /\ InIssue(magazine_issues', call'.arg.issue_date, r)
           \/ /\ heap[r].status \in {"Pending", "Approved"}
              /\ heap'[r].status = "Cancelled"
              /\ Calls("cancel_advert")
              /\ pc' = "returned"
              /\ adverts[call'.arg.advert_id] = r

\* C21: for adverts created through create_advert the only status changes
\* are Pending to Approved (editor, append path) and Pending or Approved to
\* Cancelled (marketing cancel): Cancelled is absorbing, no advert goes
\* back to Pending, and Published is never reached.
C21_Lifecycle == []C21_ReachedStatuses /\ [][C21_Step]_vars

\* A created advert that was approved, stored and then cancelled has been
\* refused by the editor and by the processing centre's guard it once
\* passed: it is still Cancelled.
C21_Witness ==
    /\ pc = "raised"
    /\ call.op \in {"update_advert_in_issue", "store_advert"}
    /\ call.arg.advert \in Created
    /\ heap[call.arg.advert].status = "Cancelled"
    /\ \E i \in 1..Len(stored_adverts) : stored_adverts[i] = call.arg.advert

C22_StoredWerePlaced ==
    \A i \in 1..Len(stored_adverts) :
        stored_adverts[i] \in Created => stored_adverts[i] \in placed

\* An advert comes to have been in an issue only by a successful
\* update_advert_in_issue that appends that very advert.
C22_PlacedByEditor ==
    placed' # placed
    => /\ Calls("update_advert_in_issue")
       /\ pc' = "returned"
       /\ placed' = placed \cup {call'.arg.advert}
       /\ magazine_issues'[call'.arg.issue_date]
              = Append(IssueOrEmpty(magazine_issues, call'.arg.issue_date),
                       call'.arg.advert)

\* C22: a created advert is in the stored sequence only if an editor's
\* update_advert_in_issue appended that same advert to an issue earlier in
\* the run; no sequence of operations stores an advert that was never
\* placed.
C22_StoredAfterPlaced == []C22_StoredWerePlaced /\ [][C22_PlacedByEditor]_vars

\* A created advert stored after it was placed and taken out of the issue
\* again: no issue holds it now.
C22_Witness ==
    /\ pc = "returned"
    /\ call.op = "store_advert"
    /\ call.arg.advert \in Created
    /\ call.arg.advert \in placed
    /\ call.arg.advert \notin IssueEntries(magazine_issues)
    /\ stored_adverts[Len(stored_adverts)] = call.arg.advert

C23_Terminates == (pc = "loop") ~> (pc \in {"returned", "raised"})

C23_Counts ==
    call.op = "execute_commands"
    => /\ Executed \in 0..Len(batch)
       /\ pc = "loop" => Len(results) = Executed
       /\ pc = "returned"
          => /\ command_queue = <<>>
             /\ Len(outcome.list) = Len(batch)

C23_LoopStep ==
    pc = "loop" /\ pc' \in {"loop", "raised"}
    => /\ command_queue # <<>>
       /\ command_queue' = Tail(command_queue)

\* C23: execute_commands terminates on a finite queue of the defined
\* commands: every turn of the loop removes exactly one command, at most N
\* commands are executed for a queue of N, and when it returns normally the
\* queue is empty.
C23_Termination ==
    /\ C23_Terminates
    /\ []C23_Counts
    /\ [][C23_LoopStep]_vars

\* A queue of two commands was run to its end, one result for each.
C23_Witness ==
    /\ BatchReturned
    /\ Len(batch) = MaxQueue
    /\ Executed = Len(batch)
    /\ Len(outcome.list) = Len(batch)
    /\ command_queue = <<>>

====
